---- MODULE Spec2Model ----
(***************************************************************************)
(* Schema graph (store/schemaStore.ts), relationship resolver              *)
(* (components/Canvas.tsx, handleRelationshipCreation) and the UI entry    *)
(* points that reach them (TableNode.tsx drag and drop, Toolbar, Sidebar,  *)
(* CustomEdge); the store's writes to localStorage and the save dialog     *)
(* (PersistSpec); the type compatibility oracle taken alone (OracleSpec);  *)
(* the AI merge (utils/openaiClient.ts) and the deterministic script       *)
(* emitter (utils/scriptGenerator.ts, generateManualSupabaseScript); the   *)
(* script export with its generation service (ExportSpec) and the AI chat  *)
(* request next to the designer's handlers (ChatSpec).                     *)
(*                                                                         *)
(* Identifiers are modelled as sequences of hyphen-free segments:          *)
(* `table-17` is <<"table", "17">>, `id` is <<"id">>.  A React Flow handle *)
(* id `${table.id}-${field.id}` is the concatenation of the two sequences  *)
(* and String.split('-') returns the segments.  null / undefined / ''      *)
(* (everything `!x` accepts) is the empty sequence for ids and "" for      *)
(* type strings.                                                           *)
(***************************************************************************)
EXTENDS Integers, Sequences, FiniteSets, TLC

\* ------------------------------------------------------------------ bounds
MaxTables == 2
MaxFields == 4
MaxRels == 2
MaxClock == 1
MaxOps == 3

\* ------------------------------------------------------- small input sets
\* Names and types typed into the Sidebar "add field" / "edit field" forms.
NewFieldNames == {"email"}
NewFieldTypes == {"text", "int"}

Null == << >>
NoType == ""

\* ------------------------------------------------ type compatibility oracle
KnownTypes ==
  {"uuid", "bigint", "int", "smallint", "decimal", "numeric", "real",
   "double precision", "text", "varchar", "char", "timestamp", "timestamptz",
   "date", "time", "timetz", "interval", "boolean", "json", "jsonb", "array"}

TYPE_COMPATIBILITY_RULES ==
  [t \in KnownTypes |->
     CASE t = "uuid" -> {"uuid"}
       [] t \in {"bigint", "int", "smallint"} -> {"bigint", "int", "smallint"}
       [] t \in {"decimal", "numeric", "real", "double precision"} ->
            {"decimal", "numeric", "real", "double precision"}
       [] t \in {"text", "varchar", "char"} -> {"text", "varchar", "char"}
       [] t \in {"timestamp", "timestamptz"} -> {"timestamp", "timestamptz"}
       [] t = "date" -> {"date"}
       [] t \in {"time", "timetz"} -> {"time", "timetz"}
       [] t = "interval" -> {"interval"}
       [] t = "boolean" -> {"boolean"}
       [] t \in {"json", "jsonb"} -> {"json", "jsonb"}
       [] t = "array" -> {"array"}]

\* areTypesCompatible with a one-way lookup that skips the rules of "text".
areTypesCompatibleOneWay(type1, type2) ==
  \/ type1 = type2
  \/ /\ type1 \in KnownTypes \ {"text"}
     /\ type2 \in TYPE_COMPATIBILITY_RULES[type1]

\* The value areTypesCompatible returns, when it returns.
areTypesCompatible(type1, type2) ==
  \/ type1 = type2
  \/ type1 \in KnownTypes /\ type2 \in TYPE_COMPATIBILITY_RULES[type1]
  \/ type2 \in KnownTypes /\ type1 \in TYPE_COMPATIBILITY_RULES[type2]

\* TYPE_COMPATIBILITY_RULES is an object literal: besides its own keys, a
\* lookup finds the properties inherited from Object.prototype, whose values
\* are truthy and have no `includes` method.
ObjectPrototypeKeys == {"constructor", "toString"}

\* areTypesCompatible raises a TypeError: a lookup that yields an inherited
\* property is followed by a call of its missing `includes`.
areTypesCompatibleThrows(type1, type2) ==
  /\ type1 # type2
  /\ \/ type1 \in ObjectPrototypeKeys
     \/ /\ ~(type1 \in KnownTypes /\ type2 \in TYPE_COMPATIBILITY_RULES[type1])
        /\ type2 \in ObjectPrototypeKeys

\* How a call of areTypesCompatible ends.
areTypesCompatibleOutcome(type1, type2) ==
  IF areTypesCompatibleThrows(type1, type2) THEN "TypeError"
  ELSE IF areTypesCompatible(type1, type2) THEN "true"
  ELSE "false"

\* The type names the field type select offers (FIELD_TYPES).
FIELD_TYPES == (KnownTypes \ {"char", "timetz"}) \cup {"serial", "enum", "bytea"}

\* ----------------------------------------------------------------- helpers
\* Array.prototype.find / findIndex: index of the first element satisfying
\* P, 0 when there is none.
FirstIndex(s, P(_)) ==
  IF \E i \in DOMAIN s : P(s[i])
  THEN CHOOSE i \in DOMAIN s : P(s[i]) /\ \A j \in 1..(i - 1) : ~P(s[j])
  ELSE 0

\* { ...obj, ...updates } for updates whose keys are keys of obj
Merge(obj, updates) ==
  [k \in DOMAIN obj |-> IF k \in DOMAIN updates THEN updates[k] ELSE obj[k]]

\* `${prefix}-${Date.now()}`
TimeId(prefix, clock) == <<prefix, ToString(clock)>>

\* --------------------------------------------------------------- the store
\* A store value s is the record of the zustand state,
\*   [tables, relationships, selectedTable, selectedRelationship,
\*    currentDesignId, currentDesignName],
\* together with the browser storage the store writes to:
\*   databaseSchema  the parsed localStorage item 'database-schema', << >>
\*                   when there is none,
\*   quotaExceeded   whether localStorage.setItem throws.
\* Every operation below is the store method of that name: its `set(...)`
\* followed by its saveToStorage().

AuthUsersTable == <<"auth", "users", "table">>

\* JSON.stringify({ tables, relationships }), as the value it parses back to.
Snapshot(s) == [tables |-> s.tables, relationships |-> s.relationships]

\* saveToStorage without its localStorage.setItem.
saveToStorageSkipped(s) == s

\* saveToStorage that answers a failed write by emptying the graph.
saveToStorageResetting(s) ==
  IF s.quotaExceeded
  THEN [s EXCEPT !.tables = << >>, !.relationships = << >>]
  ELSE [s EXCEPT !.databaseSchema = <<Snapshot(s)>>]

\* saveToStorage: the item is replaced unless setItem throws; the exception
\* is caught and logged.
saveToStorage(s) ==
  IF s.quotaExceeded THEN s
  ELSE [s EXCEPT !.databaseSchema = <<Snapshot(s)>>]

addTable(s, table) ==
  saveToStorage([s EXCEPT !.tables = Append(@, table)])

updateTable(s, id, updates) ==
  IF id = AuthUsersTable THEN s
  ELSE saveToStorage([s EXCEPT !.tables =
          [i \in DOMAIN @ |-> IF @[i].id = id THEN Merge(@[i], updates) ELSE @[i]]])

\* deleteTable with a cascade that forgets the relationships pointing at the
\* table.
deleteTableSourceOnly(s, id) ==
  IF id = AuthUsersTable THEN s
  ELSE LET keepT(t) == t.id # id
           keepR(r) == r.source # id
       IN saveToStorage([s EXCEPT !.tables = SelectSeq(@, keepT),
                    !.relationships = SelectSeq(@, keepR),
                    !.selectedTable = IF @ = id THEN Null ELSE @])

\* deleteTable that leaves the selection alone.
deleteTableKeepSelection(s, id) ==
  IF id = AuthUsersTable THEN s
  ELSE LET keepT(t) == t.id # id
           keepR(r) == r.source # id /\ r.target # id
       IN saveToStorage([s EXCEPT !.tables = SelectSeq(@, keepT),
                    !.relationships = SelectSeq(@, keepR)])

deleteTable(s, id) ==
  IF id = AuthUsersTable THEN s
  ELSE LET keepT(t) == t.id # id
           keepR(r) == r.source # id /\ r.target # id
       IN saveToStorage([s EXCEPT !.tables = SelectSeq(@, keepT),
                    !.relationships = SelectSeq(@, keepR),
                    !.selectedTable = IF @ = id THEN Null ELSE @])

addField(s, tableId, field) ==
  saveToStorage([s EXCEPT !.tables =
     [i \in DOMAIN @ |->
        IF @[i].id = tableId
        THEN [@[i] EXCEPT !.fields = Append(@, field)]
        ELSE @[i]]])

updateField(s, tableId, fieldId, updates) ==
  saveToStorage([s EXCEPT !.tables =
     [i \in DOMAIN @ |->
        IF @[i].id = tableId
        THEN [@[i] EXCEPT !.fields =
                [j \in DOMAIN @ |->
                   IF @[j].id = fieldId THEN Merge(@[j], updates) ELSE @[j]]]
        ELSE @[i]]])

\* deleteField with a cascade that forgets the relationships ending at the
\* field.
deleteFieldSourceOnly(s, tableId, fieldId) ==
  LET keepF(f) == f.id # fieldId
      keepR(r) == ~(r.sourceField = fieldId)
  IN saveToStorage([s EXCEPT !.tables =
        [i \in DOMAIN @ |->
           IF @[i].id = tableId
           THEN [@[i] EXCEPT !.fields = SelectSeq(@, keepF)]
           ELSE @[i]],
               !.relationships = SelectSeq(@, keepR)])

deleteField(s, tableId, fieldId) ==
  LET keepF(f) == f.id # fieldId
      keepR(r) == ~(r.sourceField = fieldId \/ r.targetField = fieldId)
  IN saveToStorage([s EXCEPT !.tables =
        [i \in DOMAIN @ |->
           IF @[i].id = tableId
           THEN [@[i] EXCEPT !.fields = SelectSeq(@, keepF)]
           ELSE @[i]],
               !.relationships = SelectSeq(@, keepR)])

addRelationship(s, relationship) ==
  saveToStorage([s EXCEPT !.relationships = Append(@, relationship)])

updateRelationship(s, id, updates) ==
  saveToStorage([s EXCEPT !.relationships =
     [i \in DOMAIN @ |-> IF @[i].id = id THEN Merge(@[i], updates) ELSE @[i]]])

deleteRelationship(s, id) ==
  LET keepR(r) == r.id # id
  IN saveToStorage([s EXCEPT !.relationships = SelectSeq(@, keepR),
               !.selectedRelationship = IF @ = id THEN Null ELSE @])

\* A table's policies are its `policies || []`: a table without the property
\* has the empty list.
addPolicy(s, tableId, policy) ==
  saveToStorage([s EXCEPT !.tables =
     [i \in DOMAIN @ |->
        IF @[i].id = tableId
        THEN [@[i] EXCEPT !.policies = Append(@, policy)]
        ELSE @[i]]])

updatePolicy(s, tableId, policyId, updates) ==
  saveToStorage([s EXCEPT !.tables =
     [i \in DOMAIN @ |->
        IF @[i].id = tableId
        THEN [@[i] EXCEPT !.policies =
                [j \in DOMAIN @ |->
                   IF @[j].id = policyId THEN Merge(@[j], updates) ELSE @[j]]]
        ELSE @[i]]])

deletePolicy(s, tableId, policyId) ==
  LET keepP(q) == q.id # policyId
  IN saveToStorage([s EXCEPT !.tables =
        [i \in DOMAIN @ |->
           IF @[i].id = tableId
           THEN [@[i] EXCEPT !.policies = SelectSeq(@, keepP)]
           ELSE @[i]]])

setSelectedTable(s, id) == [s EXCEPT !.selectedTable = id]

setSelectedRelationship(s, id) == [s EXCEPT !.selectedRelationship = id]

\* designId and designName are Null when the caller passes none.
loadDesign(s, newTables, newRelationships, designId, designName) ==
  saveToStorage([s EXCEPT !.tables = newTables,
                          !.relationships = newRelationships,
                          !.currentDesignId = designId,
                          !.currentDesignName = designName,
                          !.selectedTable = Null,
                          !.selectedRelationship = Null])

clearDesign(s) ==
  saveToStorage([s EXCEPT !.tables = << >>,
                          !.relationships = << >>,
                          !.selectedTable = Null,
                          !.selectedRelationship = Null,
                          !.currentDesignId = Null,
                          !.currentDesignName = Null])

setCurrentDesign(s, id, name) ==
  [s EXCEPT !.currentDesignId = id, !.currentDesignName = name]

\* ------------------------------------------------- relationship resolver
\* Toasts raised by the canvas handlers.
InvalidTableReference == "Invalid table reference"
UsingExistingField == "Using existing field"
CreatedNewField == "Created new field"
FieldCreationFailed == "Failed to create or find target field"
DuplicateRelationship == "This relationship already exists"
RelationshipCreated == "Relationship created"
FieldsNotFound == "Invalid connection: Fields not found"

\* The field object built by createMatchingField; sourceTableId is the
\* `tableId` the caller spreads into its sourceField argument.
createMatchingField(sourceTableId, sourceFieldObj, sourceFieldName, clock) ==
  [id |-> TimeId("field", clock),
   name |-> sourceFieldName,
   type |-> sourceFieldObj.type,
   isPrimaryKey |-> FALSE,
   isForeignKey |-> TRUE,
   isUnique |-> FALSE,
   isNullable |-> TRUE,
   references |-> <<[table |-> sourceTableId, field |-> sourceFieldObj.id]>>]

\* The guard of the field-resolution block: no target field, no target type,
\* or incompatible types.
NeedsTargetResolution(targetField, sourceFieldType, targetFieldType) ==
  \/ targetField = Null
  \/ targetFieldType = NoType
  \/ ~areTypesCompatible(sourceFieldType, targetFieldType)

\* The duplicate scan without its second, reversed, disjunct.
SameLinkForwardOnly(rel, source, target, sourceField, finalTargetField) ==
  /\ rel.source = source /\ rel.target = target
  /\ rel.sourceField = sourceField /\ rel.targetField = finalTargetField

\* The predicate of the duplicate scan: rel links the same pair, in either
\* direction.
SameLink(rel, source, target, sourceField, finalTargetField) ==
  \/ /\ rel.source = source /\ rel.target = target
     /\ rel.sourceField = sourceField /\ rel.targetField = finalTargetField
  \/ /\ rel.source = target /\ rel.target = source
     /\ rel.sourceField = finalTargetField /\ rel.targetField = sourceField

\* A lookup by name that never finds a field.
ExistingFieldIndexNone(targetTable, sourceFieldName) == 0

\* targetTable.fields.find(f => f.name === sourceFieldName), as an index.
ExistingFieldIndex(targetTable, sourceFieldName) ==
  LET sameName(f) == f.name = sourceFieldName
  IN FirstIndex(targetTable.fields, sameName)

\* handleRelationshipCreation(source, target, sourceField, targetField,
\*   sourceFieldName, targetFieldName, sourceFieldType, targetFieldType),
\* d being the record of these arguments (targetFieldName only feeds the
\* text of a toast and is left out).  The result holds the store after the
\* call, the toasts raised, and the handler's locals newField (as a sequence
\* of length at most one) and newRelationship (likewise).
handleRelationshipCreation(s, clock, d) ==
  LET isSource(t) == t.id = d.source
      isTarget(t) == t.id = d.target
      si == FirstIndex(s.tables, isSource)
      ti == FirstIndex(s.tables, isTarget)
  IN
  IF si = 0 \/ ti = 0
  THEN [store |-> s, toasts |-> <<InvalidTableReference>>,
        newField |-> << >>, newRelationship |-> << >>]
  ELSE
  LET sourceTable == s.tables[si]
      targetTable == s.tables[ti]
      isSourceField(f) == f.id = d.sourceField
      resolving == NeedsTargetResolution(d.targetField, d.sourceFieldType,
                                         d.targetFieldType)
      ei == ExistingFieldIndex(targetTable, d.sourceFieldName)
      sfi == FirstIndex(sourceTable.fields, isSourceField)
      reuse == /\ resolving /\ ei # 0
               /\ areTypesCompatible(d.sourceFieldType, targetTable.fields[ei].type)
      create == resolving /\ ~reuse /\ sfi # 0
      newFieldName == IF ei # 0 THEN d.sourceFieldName \o "_ref"
                      ELSE d.sourceFieldName
      newField == createMatchingField(d.source, sourceTable.fields[sfi],
                                      newFieldName, clock)
      s1 == IF create THEN addField(s, d.target, newField) ELSE s
      finalTargetField == IF reuse THEN targetTable.fields[ei].id
                          ELSE IF create THEN newField.id
                          ELSE d.targetField
      t1 == IF reuse THEN <<UsingExistingField>>
            ELSE IF create THEN <<CreatedNewField>>
            ELSE << >>
      created == IF create THEN <<newField>> ELSE << >>
      isDup(rel) == SameLink(rel, d.source, d.target, d.sourceField,
                             finalTargetField)
      newRelationship == [id |-> TimeId("rel", clock),
                          source |-> d.source,
                          target |-> d.target,
                          sourceField |-> d.sourceField,
                          targetField |-> finalTargetField,
                          type |-> "one-to-many"]
  IN
  IF finalTargetField = Null
  THEN [store |-> s1, toasts |-> Append(t1, FieldCreationFailed),
        newField |-> created, newRelationship |-> << >>]
  ELSE IF FirstIndex(s.relationships, isDup) # 0
  THEN [store |-> s1, toasts |-> Append(t1, DuplicateRelationship),
        newField |-> created, newRelationship |-> << >>]
  ELSE [store |-> addRelationship(s1, newRelationship),
        toasts |-> Append(t1, RelationshipCreated),
        newField |-> created, newRelationship |-> <<newRelationship>>]

\* The canvas's window listener for the createRelationship event: it passes
\* the event's detail to handleRelationshipCreation as it is.
handleCreateRelationship(s, clock, detail) ==
  handleRelationshipCreation(s, clock, detail)

\* A handler that returns without touching the store or raising a toast.
Ignored(s) ==
  [store |-> s, toasts |-> << >>, newField |-> << >>, newRelationship |-> << >>]

\* TableNode.handleDrop: a dragged field (dragData, written by
\* handleDragStart) is dropped on targetField of the table node `data`.  The
\* createRelationship event it dispatches is consumed synchronously by the
\* canvas listener, which calls handleRelationshipCreation with the detail.
DropDetail(dragData, data, targetField) ==
  [source |-> dragData.tableId,
   target |-> data.id,
   sourceField |-> dragData.fieldId,
   targetField |-> targetField.id,
   sourceFieldName |-> dragData.fieldName,
   sourceFieldType |-> dragData.fieldType,
   targetFieldType |-> targetField.type]

\* TableNode.handleDragStart's dragData for a field of the table node.
DragData(data, field) ==
  [tableId |-> data.id,
   fieldId |-> field.id,
   fieldName |-> field.name,
   fieldType |-> field.type]

SameFieldDrop(dragData, data, targetField) ==
  dragData.tableId = data.id /\ dragData.fieldId = targetField.id

handleDrop(s, clock, dragData, data, targetField) ==
  IF SameFieldDrop(dragData, data, targetField)
  THEN Ignored(s)
  ELSE handleCreateRelationship(s, clock, DropDetail(dragData, data, targetField))

\* TableNode.handleDropOnTable: the field is dropped on the table node
\* itself, no target field is named.
TableDropDetail(dragData, data) ==
  [source |-> dragData.tableId,
   target |-> data.id,
   sourceField |-> dragData.fieldId,
   targetField |-> Null,
   sourceFieldName |-> dragData.fieldName,
   sourceFieldType |-> dragData.fieldType,
   targetFieldType |-> NoType]

SameTableDrop(dragData, data) == dragData.tableId = data.id

handleDropOnTable(s, clock, dragData, data) ==
  IF SameTableDrop(dragData, data)
  THEN Ignored(s)
  ELSE handleCreateRelationship(s, clock, TableDropDetail(dragData, data))

\* The id of the two handles TableNode renders for a field.
HandleId(table, field) == table.id \o field.id

\* const [tableId, fieldId] = handle.split('-')
SplitTableId(handle) == IF Len(handle) >= 1 THEN <<handle[1]>> ELSE Null
SplitFieldId(handle) == IF Len(handle) >= 2 THEN <<handle[2]>> ELSE Null

\* Canvas.isValidConnection (source and target are node ids, never empty
\* for a connection drawn between two rendered handles).
isValidConnection(sourceHandle, targetHandle) ==
  /\ sourceHandle # Null /\ targetHandle # Null
  /\ sourceHandle # targetHandle

\* The arguments Canvas.onConnect passes to handleRelationshipCreation, as a
\* sequence of length one, or << >> when it finds one of the fields missing.
ConnectDetail(s, sourceHandle, targetHandle) ==
  LET sourceTableId == SplitTableId(sourceHandle)
      sourceFieldId == SplitFieldId(sourceHandle)
      targetTableId == SplitTableId(targetHandle)
      targetFieldId == SplitFieldId(targetHandle)
      isS(t) == t.id = sourceTableId
      isT(t) == t.id = targetTableId
      isSF(f) == f.id = sourceFieldId
      isTF(f) == f.id = targetFieldId
      si == FirstIndex(s.tables, isS)
      ti == FirstIndex(s.tables, isT)
      sfi == IF si = 0 THEN 0 ELSE FirstIndex(s.tables[si].fields, isSF)
      tfi == IF ti = 0 THEN 0 ELSE FirstIndex(s.tables[ti].fields, isTF)
  IN IF sfi = 0 \/ tfi = 0
     THEN << >>
     ELSE <<[source |-> sourceTableId,
             target |-> targetTableId,
             sourceField |-> sourceFieldId,
             targetField |-> targetFieldId,
             sourceFieldName |-> s.tables[si].fields[sfi].name,
             sourceFieldType |-> s.tables[si].fields[sfi].type,
             targetFieldType |-> s.tables[ti].fields[tfi].type]>>

\* Canvas.onConnect, reached only for a connection isValidConnection accepts.
onConnect(s, clock, sourceHandle, targetHandle) ==
  IF ~isValidConnection(sourceHandle, targetHandle)
  THEN Ignored(s)
  ELSE IF ConnectDetail(s, sourceHandle, targetHandle) = << >>
  THEN [Ignored(s) EXCEPT !.toasts = <<FieldsNotFound>>]
  ELSE handleRelationshipCreation(s, clock,
                                  ConnectDetail(s, sourceHandle, targetHandle)[1])

\* ------------------------------------------------------- toolbar / sidebar
\* Toolbar.handleAddTable's newTable.
ToolbarField(name, type, pk) ==
  [id |-> <<name>>, name |-> name, type |-> type,
   isPrimaryKey |-> pk, isForeignKey |-> FALSE,
   isUnique |-> pk, isNullable |-> FALSE, references |-> << >>]

NewTable(tbls, clock) ==
  [id |-> TimeId("table", clock),
   name |-> "table_" \o ToString(Len(tbls) + 1),
   fields |-> <<ToolbarField("id", "uuid", TRUE),
                ToolbarField("created_at", "timestamptz", FALSE),
                ToolbarField("updated_at", "timestamptz", FALSE)>>,
   enableRLS |-> TRUE,
   policies |-> << >>]

\* Sidebar.handleAddField's newField.
SidebarNewField(newFieldName, newFieldType, clock) ==
  [id |-> TimeId("field", clock),
   name |-> newFieldName,
   type |-> newFieldType,
   isPrimaryKey |-> FALSE,
   isForeignKey |-> FALSE,
   isUnique |-> FALSE,
   isNullable |-> TRUE,
   references |-> << >>]

\* Patches the Sidebar field editor sends to updateField.
FieldPatches ==
  {[name |-> n] : n \in NewFieldNames} \cup {[type |-> t] : t \in NewFieldTypes}

\* Relationship types picked in the Sidebar select (of one-to-one,
\* one-to-many, many-to-many).
RelationshipTypes == {"one-to-one"}

\* ---------------------------------------------------------- saved designs
\* Designs handed to loadDesign by LoadDesignModal.handleLoad, with the id
\* and name of the saved design, and by AIChat.handleSend, without.
\* UsersPosts is the schema of the specification's scenario A;
\* UsersPostsEdited is the same schema after an edit that moved the email
\* column from users to posts; AuthProfiles holds the auth.users system
\* table the store protects, referenced by the user_id column of a profiles
\* table that has two policies.
DesignField(name, type, pk, unique, nullable) ==
  [id |-> <<name>>, name |-> name, type |-> type,
   isPrimaryKey |-> pk, isForeignKey |-> FALSE,
   isUnique |-> unique, isNullable |-> nullable, references |-> << >>]

DesignTable(name, fields) ==
  [id |-> <<name>>, name |-> name, fields |-> fields, enableRLS |-> TRUE,
   policies |-> << >>]

UsersPosts ==
  [id |-> <<"design", "1">>, name |-> <<"blog">>,
   tables |-> <<DesignTable("users", <<DesignField("id", "uuid", TRUE, TRUE, FALSE),
                                       DesignField("email", "text", FALSE, TRUE, FALSE)>>),
                DesignTable("posts", <<DesignField("id", "uuid", TRUE, TRUE, FALSE)>>)>>,
   relationships |-> << >>]

UsersPostsEdited ==
  [id |-> Null, name |-> Null,
   tables |-> <<DesignTable("users", <<DesignField("id", "uuid", TRUE, TRUE, FALSE)>>),
                DesignTable("posts", <<DesignField("id", "uuid", TRUE, TRUE, FALSE),
                                       DesignField("email", "text", FALSE, FALSE, TRUE)>>)>>,
   relationships |-> << >>]

AuthProfiles ==
  [id |-> <<"design", "2">>, name |-> <<"profiles">>,
   tables |-> <<[id |-> AuthUsersTable, name |-> "users",
                 fields |-> <<DesignField("id", "uuid", TRUE, TRUE, FALSE)>>,
                 enableRLS |-> FALSE, policies |-> << >>],
                Merge(DesignTable("profiles",
                            <<DesignField("id", "uuid", TRUE, TRUE, FALSE),
                              Merge(DesignField("user_id", "uuid", FALSE, TRUE, FALSE),
                                    [isForeignKey |-> TRUE,
                                     references |-> <<[table |-> AuthUsersTable,
                                                       field |-> <<"id">>]>>])>>),
                      [policies |-> <<[id |-> <<"policy", "a">>, name |-> "read",
                                       command |-> "SELECT", role |-> "authenticated"],
                                      [id |-> <<"policy", "b">>, name |-> "write",
                                       command |-> "INSERT", role |-> "anon"]>>])>>,
   relationships |-> <<[id |-> <<"rel", "saved">>,
                        source |-> <<"profiles">>,
                        target |-> AuthUsersTable,
                        sourceField |-> <<"user_id">>,
                        targetField |-> <<"id">>,
                        type |-> "one-to-one"]>>]

Designs == {UsersPosts, UsersPostsEdited, AuthProfiles}

\* ------------------------------------------------------------------- state
VARIABLES
  tables,               \* store.tables
  relationships,        \* store.relationships
  selectedTable,        \* store.selectedTable
  selectedRelationship, \* store.selectedRelationship
  now,                  \* the last value Date.now() returned
  drag,                 \* dataTransfer 'application/json' of the drag in
                        \* progress, << >> when no field is being dragged
  ops,                  \* number of handlers run so far
  currentDesignId,      \* store.currentDesignId
  currentDesignName,    \* store.currentDesignName
  databaseSchema,       \* localStorage item 'database-schema', parsed
  quotaExceeded,        \* localStorage.setItem throws
  type1,                \* areTypesCompatible under examination: its
  type2,                \* arguments,
  compatible,           \* and how the call ended, << >> before the call
  openai,               \* openaiClient's `openai` is an OpenAI client (an
                        \* API key is configured), not null
  isGenerating,         \* ScriptModal: where its generateScript() stands,
                        \* "closed" while the modal is not shown
  answers,              \* how the generation service answered the calls
                        \* of the generateScript() under way
  generatedScript,      \* what generateSupabaseScript returned, << >>
                        \* before it returns
  currentSchema         \* AIChat: the schema handleSend handed to
                        \* modifySchemaWithAI, << >> when no request is
                        \* under way (isLoading is false)

vars == <<tables, relationships, selectedTable, selectedRelationship,
          now, drag, ops, currentDesignId, currentDesignName, databaseSchema,
          quotaExceeded, type1, type2, compatible,
          openai, isGenerating, answers, generatedScript, currentSchema>>

oracleVars == <<type1, type2, compatible>>

exportVars == <<openai, isGenerating, answers, generatedScript>>

chatVars == <<currentSchema>>

storageVars == <<currentDesignId, currentDesignName, databaseSchema, quotaExceeded>>

Store ==
  [tables |-> tables, relationships |-> relationships,
   selectedTable |-> selectedTable,
   selectedRelationship |-> selectedRelationship,
   currentDesignId |-> currentDesignId,
   currentDesignName |-> currentDesignName,
   databaseSchema |-> databaseSchema,
   quotaExceeded |-> quotaExceeded]

NoDrag == << >>

Init ==
  /\ tables = << >>
  /\ relationships = << >>
  /\ selectedTable = Null
  /\ selectedRelationship = Null
  /\ now = 0
  /\ drag = NoDrag
  /\ ops = 0
  /\ currentDesignId = Null
  /\ currentDesignName = Null
  /\ databaseSchema = << >>
  /\ quotaExceeded = FALSE
  /\ type1 = NoType
  /\ type2 = NoType
  /\ compatible = << >>
  /\ openai = FALSE
  /\ isGenerating = "closed"
  /\ answers = << >>
  /\ generatedScript = << >>
  /\ currentSchema = << >>

\* The store becomes s.
StoreBecomes(s) ==
  /\ tables' = s.tables
  /\ relationships' = s.relationships
  /\ selectedTable' = s.selectedTable
  /\ selectedRelationship' = s.selectedRelationship
  /\ currentDesignId' = s.currentDesignId
  /\ currentDesignName' = s.currentDesignName
  /\ databaseSchema' = s.databaseSchema
  /\ quotaExceeded' = s.quotaExceeded
  /\ ops' = ops + 1
  /\ UNCHANGED <<oracleVars, exportVars>>

\* The store becomes s as a handler returns.
Becomes(s) == StoreBecomes(s) /\ UNCHANGED chatVars

\* The model keeps the graph within its bounds.
WithinBounds(s) ==
  /\ Len(s.tables) <= MaxTables
  /\ \A i \in DOMAIN s.tables : Len(s.tables[i].fields) <= MaxFields
  /\ Len(s.relationships) <= MaxRels

\* A user gesture other than the drag in progress.
Idle == drag = NoDrag /\ ops < MaxOps

selectedTableData ==
  LET isSel(t) == t.id = selectedTable
  IN FirstIndex(tables, isSel)

selectedRelationshipData ==
  LET isSel(r) == r.id = selectedRelationship
  IN FirstIndex(relationships, isSel)

\* The values the next call of Date.now() may return: the clock never runs
\* backwards, and two calls may fall in the same millisecond.
Clocks == now..MaxClock

\* The handler whose result is r called Date.now() (to mint a field id or a
\* relationship id).
Minted(r) == r.newField # << >> \/ r.newRelationship # << >>

\* ----------------------------------------------------------------- actions
HandleAddTable ==
  \E clock \in Clocks :
    /\ Idle
    /\ Len(tables) < MaxTables
    /\ Becomes(addTable(Store, NewTable(tables, clock)))
    /\ now' = clock
    /\ UNCHANGED drag

OnNodeClick ==
  \E i \in DOMAIN tables :
    /\ Idle
    /\ Becomes(setSelectedTable(Store, tables[i].id))
    /\ UNCHANGED <<now, drag>>

OnEdgeClick ==
  \E i \in DOMAIN relationships :
    /\ Idle
    /\ Becomes(setSelectedRelationship(Store, relationships[i].id))
    /\ UNCHANGED <<now, drag>>

OnPaneClick ==
  /\ Idle
  /\ Becomes(setSelectedRelationship(setSelectedTable(Store, Null), Null))
  /\ UNCHANGED <<now, drag>>

SidebarDeleteTable ==
  /\ Idle
  /\ selectedTableData # 0
  /\ Becomes(deleteTable(Store, selectedTable))
  /\ UNCHANGED <<now, drag>>

\* The "Enable Row Level Security" checkbox: e.target.checked is the
\* negation of the value shown.
SidebarToggleRLS ==
  /\ Idle
  /\ selectedTableData # 0
  /\ Becomes(updateTable(Store, selectedTable,
                         [enableRLS |-> ~tables[selectedTableData].enableRLS]))
  /\ UNCHANGED <<now, drag>>

HandleAddField ==
  \E n \in NewFieldNames, t \in NewFieldTypes, clock \in Clocks :
    /\ Idle
    /\ selectedTableData # 0
    /\ WithinBounds(addField(Store, selectedTable, SidebarNewField(n, t, clock)))
    /\ Becomes(addField(Store, selectedTable, SidebarNewField(n, t, clock)))
    /\ now' = clock
    /\ UNCHANGED drag

SidebarUpdateField ==
  \E p \in FieldPatches :
    /\ Idle
    /\ selectedTableData # 0
    /\ \E j \in DOMAIN tables[selectedTableData].fields :
         /\ ~tables[selectedTableData].fields[j].isPrimaryKey
         /\ Becomes(updateField(Store, selectedTable,
                                tables[selectedTableData].fields[j].id, p))
    /\ UNCHANGED <<now, drag>>

SidebarDeleteField ==
  /\ Idle
  /\ selectedTableData # 0
  /\ \E j \in DOMAIN tables[selectedTableData].fields :
       /\ ~tables[selectedTableData].fields[j].isPrimaryKey
       /\ Becomes(deleteField(Store, selectedTable,
                              tables[selectedTableData].fields[j].id))
  /\ UNCHANGED <<now, drag>>

SidebarUpdateRelationship ==
  \E ty \in RelationshipTypes :
    /\ Idle
    /\ selectedRelationshipData # 0
    /\ Becomes(updateRelationship(Store, selectedRelationship, [type |-> ty]))
    /\ UNCHANGED <<now, drag>>

SidebarDeleteRelationship ==
  /\ Idle
  /\ selectedRelationshipData # 0
  /\ Becomes(deleteRelationship(Store, selectedRelationship))
  /\ UNCHANGED <<now, drag>>

\* CustomEdge.handleDelete
EdgeDelete ==
  \E i \in DOMAIN relationships :
    /\ Idle
    /\ Becomes(deleteRelationship(Store, relationships[i].id))
    /\ UNCHANGED <<now, drag>>

\* LoadDesignModal.handleLoad and AIChat.handleSend call loadDesign; the
\* latter after awaiting the generation service, so the load can complete
\* while a field is being dragged.
LoadDesign ==
  \E d \in Designs :
    /\ ops < MaxOps
    /\ Becomes(loadDesign(Store, d.tables, d.relationships, d.id, d.name))
    /\ UNCHANGED <<now, drag>>

HandleDragStart ==
  \E i \in DOMAIN tables :
    \E j \in DOMAIN tables[i].fields :
      /\ Idle
      /\ drag' = <<DragData(tables[i], tables[i].fields[j])>>
      /\ UNCHANGED <<tables, relationships, selectedTable,
                     selectedRelationship, now, ops>>
      /\ UNCHANGED <<storageVars, oracleVars, exportVars, chatVars>>

HandleDragEnd ==
  /\ drag # NoDrag
  /\ drag' = NoDrag
  /\ UNCHANGED <<tables, relationships, selectedTable, selectedRelationship,
                 now, ops>>
  /\ UNCHANGED <<storageVars, oracleVars, exportVars, chatVars>>

HandleDrop ==
  \E i \in DOMAIN tables, clock \in Clocks :
    \E j \in DOMAIN tables[i].fields :
      LET r == handleDrop(Store, clock, drag[1], tables[i], tables[i].fields[j])
      IN /\ drag # NoDrag
         /\ ops < MaxOps
         /\ WithinBounds(r.store)
         /\ Becomes(r.store)
         /\ drag' = NoDrag
         /\ now' = IF Minted(r) THEN clock ELSE now

HandleDropOnTable ==
  \E i \in DOMAIN tables, clock \in Clocks :
    LET r == handleDropOnTable(Store, clock, drag[1], tables[i])
    IN /\ drag # NoDrag
       /\ ops < MaxOps
       /\ WithinBounds(r.store)
       /\ Becomes(r.store)
       /\ drag' = NoDrag
       /\ now' = IF Minted(r) THEN clock ELSE now

OnConnect ==
  \E i \in DOMAIN tables, k \in DOMAIN tables, clock \in Clocks :
    \E j \in DOMAIN tables[i].fields, l \in DOMAIN tables[k].fields :
      LET sourceHandle == HandleId(tables[i], tables[i].fields[j])
          targetHandle == HandleId(tables[k], tables[k].fields[l])
          r == onConnect(Store, clock, sourceHandle, targetHandle)
      IN /\ Idle
         /\ isValidConnection(sourceHandle, targetHandle)
         /\ WithinBounds(r.store)
         /\ Becomes(r.store)
         /\ now' = IF Minted(r) THEN clock ELSE now
         /\ UNCHANGED drag

Next ==
  \/ HandleAddTable
  \/ OnNodeClick
  \/ OnEdgeClick
  \/ OnPaneClick
  \/ SidebarDeleteTable
  \/ SidebarToggleRLS
  \/ HandleAddField
  \/ SidebarUpdateField
  \/ SidebarDeleteField
  \/ SidebarUpdateRelationship
  \/ SidebarDeleteRelationship
  \/ EdgeDelete
  \/ LoadDesign
  \/ HandleDragStart
  \/ HandleDragEnd
  \/ HandleDrop
  \/ HandleDropOnTable
  \/ OnConnect

Spec == Init /\ [][Next]_vars

\* ------------------------------------- the designer with failing storage
\* Names typed into the save dialog.
DesignNames == {"draft"}

\* The design DesignService.updateDesign (when the design has an id) or
\* DesignService.saveDesign (when it has none) resolves to.
SavedDesign(s, name) ==
  [id |-> IF s.currentDesignId # Null THEN s.currentDesignId
          ELSE <<"design", "new">>,
   name |-> <<name>>]

\* SaveDesignModal.handleSave; saved is the design the service resolved to,
\* << >> when the service call failed.
handleSave(s, name, saved) ==
  IF name = "" \/ Len(s.tables) = 0 \/ saved = << >> THEN s
  ELSE setCurrentDesign(s, saved[1].id, saved[1].name)

\* PolicyEditor.handleAddPolicy's policy.
NewPolicy(name, clock) ==
  [id |-> TimeId("policy", clock), name |-> name,
   command |-> "SELECT", role |-> "authenticated"]

PolicyNames == {"read", "write"}

HandleSave ==
  \E name \in DesignNames, ok \in BOOLEAN :
    /\ Idle
    /\ Becomes(handleSave(Store, name,
                          IF ok THEN <<SavedDesign(Store, name)>> ELSE << >>))
    /\ UNCHANGED <<now, drag>>

HandleAddPolicy ==
  \E name \in PolicyNames, clock \in Clocks :
    /\ Idle
    /\ selectedTableData # 0
    /\ Len(tables[selectedTableData].policies) < MaxRels
    /\ Becomes(addPolicy(Store, selectedTable, NewPolicy(name, clock)))
    /\ now' = clock
    /\ UNCHANGED drag

\* The browser storage runs full, so that localStorage.setItem throws.
StorageFills ==
  /\ ~quotaExceeded
  /\ quotaExceeded' = TRUE
  /\ UNCHANGED <<tables, relationships, selectedTable, selectedRelationship,
                 now, drag, ops, currentDesignId, currentDesignName,
                 databaseSchema, oracleVars, exportVars, chatVars>>

\* Room is made in the browser storage.
StorageFrees ==
  /\ quotaExceeded
  /\ quotaExceeded' = FALSE
  /\ UNCHANGED <<tables, relationships, selectedTable, selectedRelationship,
                 now, drag, ops, currentDesignId, currentDesignName,
                 databaseSchema, oracleVars, exportVars, chatVars>>

\* The toolbar, sidebar and dialog handlers that write the graph, next to a
\* storage that fills up and is freed.
PersistNext ==
  \/ HandleAddTable
  \/ OnNodeClick
  \/ SidebarDeleteTable
  \/ HandleAddField
  \/ SidebarDeleteField
  \/ LoadDesign
  \/ HandleSave
  \/ HandleAddPolicy
  \/ SidebarToggleRLS
  \/ StorageFills
  \/ StorageFrees

PersistSpec == Init /\ [][PersistNext]_vars

\* ------------------------------------------- the compatibility oracle alone
\* Type strings handed to the oracle: the types of the rule table, the types
\* the field type select offers beyond it, a type only an imported or
\* generated schema can carry, and names of inherited properties.
TypeStrings == KnownTypes \cup FIELD_TYPES \cup {"integer"} \cup ObjectPrototypeKeys

OracleInit ==
  /\ tables = << >>
  /\ relationships = << >>
  /\ selectedTable = Null
  /\ selectedRelationship = Null
  /\ now = 0
  /\ drag = NoDrag
  /\ ops = 0
  /\ currentDesignId = Null
  /\ currentDesignName = Null
  /\ databaseSchema = << >>
  /\ quotaExceeded = FALSE
  /\ type1 \in TypeStrings
  /\ type2 \in TypeStrings
  /\ compatible = << >>
  /\ openai = FALSE
  /\ isGenerating = "closed"
  /\ answers = << >>
  /\ generatedScript = << >>
  /\ currentSchema = << >>

\* areTypesCompatible(type1, type2) is called.
CallAreTypesCompatible ==
  /\ compatible = << >>
  /\ compatible' = <<areTypesCompatibleOutcome(type1, type2)>>
  /\ UNCHANGED <<tables, relationships, selectedTable, selectedRelationship,
                 now, drag, ops, storageVars, type1, type2, exportVars, chatVars>>

OracleNext == CallAreTypesCompatible

OracleSpec == OracleInit /\ [][OracleNext]_vars

\* ================================================================= claims
\* ------------------------------------------- requests that reach resolve
\* P holds of every drag that can be dropped now: the one in progress, or
\* that of any field the user can pick up.
EveryPendingDrag(P(_)) ==
  IF drag # NoDrag THEN P(drag[1])
  ELSE \A i \in DOMAIN tables :
         \A j \in DOMAIN tables[i].fields :
           P(DragData(tables[i], tables[i].fields[j]))

\* P holds of every argument record with which an entry point can call
\* handleRelationshipCreation in the current state: a drop on a field, a drop
\* on a table, a connection drawn between two handles.
EveryDelivered(P(_)) ==
  /\ LET Dropped(dd) ==
           \A i \in DOMAIN tables :
             /\ ~SameTableDrop(dd, tables[i])
                  => P(TableDropDetail(dd, tables[i]))
             /\ \A j \in DOMAIN tables[i].fields :
                  ~SameFieldDrop(dd, tables[i], tables[i].fields[j])
                    => P(DropDetail(dd, tables[i], tables[i].fields[j]))
     IN EveryPendingDrag(Dropped)
  /\ drag = NoDrag =>
       \A i \in DOMAIN tables, k \in DOMAIN tables :
         \A j \in DOMAIN tables[i].fields, l \in DOMAIN tables[k].fields :
           LET sh == HandleId(tables[i], tables[i].fields[j])
               th == HandleId(tables[k], tables[k].fields[l])
               cd == ConnectDetail(Store, sh, th)
           IN (isValidConnection(sh, th) /\ cd # << >>) => P(cd[1])

\* P holds of some argument record an entry point can deliver now.
SomeDelivered(P(_)) ==
  LET NotP(d) == ~P(d) IN ~EveryDelivered(NotP)

Resolve(d, clock) == handleRelationshipCreation(Store, clock, d)

\* Index of the first table with the id, 0 when there is none; index of the
\* first field of a table with the id.
TableIndex(tbls, tableId) ==
  LET hasId(t) == t.id = tableId IN FirstIndex(tbls, hasId)

FieldIndex(table, fieldId) ==
  LET hasId(f) == f.id = fieldId IN FirstIndex(table.fields, hasId)

\* The field (tableId, fieldId) resolves to, as a sequence of length at most
\* one.
FieldAt(tbls, tableId, fieldId) ==
  IF TableIndex(tbls, tableId) = 0 THEN << >>
  ELSE IF FieldIndex(tbls[TableIndex(tbls, tableId)], fieldId) = 0 THEN << >>
  ELSE <<tbls[TableIndex(tbls, tableId)].fields[
            FieldIndex(tbls[TableIndex(tbls, tableId)], fieldId)]>>

LastToast(r) == IF r.toasts = << >> THEN "" ELSE r.toasts[Len(r.toasts)]

\* (tableId, fieldId) names a field of a table of tbls.
FieldExists(tbls, tableId, fieldId) ==
  \E i \in DOMAIN tbls :
    /\ tbls[i].id = tableId
    /\ \E j \in DOMAIN tbls[i].fields : tbls[i].fields[j].id = fieldId

\* The unordered pair of field endpoints a relationship connects.
Ends(r) == {<<r.source, r.sourceField>>, <<r.target, r.targetField>>}

\* Table ids and field ids in use, in tables or in relationships.
TableIdsInUse ==
  {tables[i].id : i \in DOMAIN tables}
    \cup {relationships[k].source : k \in DOMAIN relationships}
    \cup {relationships[k].target : k \in DOMAIN relationships}

FieldIdsInUse ==
  UNION {{tables[i].fields[j].id : j \in DOMAIN tables[i].fields} : i \in DOMAIN tables}
    \cup {relationships[k].sourceField : k \in DOMAIN relationships}
    \cup {relationships[k].targetField : k \in DOMAIN relationships}

\* C1: after any sequence of resolve calls, no two relationships of the graph
\* connect the same unordered pair {(source, sourceField), (target,
\* targetField)}.
C1_NoDuplicateRelationships ==
  \A i, j \in DOMAIN relationships :
    i # j => Ends(relationships[i]) # Ends(relationships[j])

\* The request d repeats a relationship the graph holds, and resolve turns it
\* down as a duplicate.
TurnedDownAsDuplicate(d) ==
  /\ \E k \in DOMAIN relationships :
       <<d.source, d.sourceField>> \in Ends(relationships[k])
  /\ \A clock \in Clocks :
       /\ LastToast(Resolve(d, clock)) = DuplicateRelationship
       /\ Resolve(d, clock).store = Store

\* The graph holds a relationship and an entry point can deliver a request
\* that repeats it, which resolve turns down.
C1_Witness == SomeDelivered(TurnedDownAsDuplicate)

\* C2: each relationship's (source, sourceField) and (target, targetField)
\* name an existing field of an existing table.
C2_ReferentialIntegrity ==
  \A k \in DOMAIN relationships :
    /\ FieldExists(tables, relationships[k].source, relationships[k].sourceField)
    /\ FieldExists(tables, relationships[k].target, relationships[k].targetField)

\* No relationship of s has table id as its source or as its target.
Unreferenced(s, id) ==
  \A k \in DOMAIN s.relationships :
    s.relationships[k].source # id /\ s.relationships[k].target # id

\* C3 (as stated): for all tables T, after deleteTable(T) no relationship has
\* T as its source or as its target.
C3_CascadeEveryTable ==
  \A id \in TableIdsInUse : Unreferenced(deleteTable(Store, id), id)

\* C3 (amended): for every table T other than the protected auth.users system
\* table, after deleteTable(T) no relationship has T as its source or as its
\* target; deleteTable of the protected table changes nothing.
C3_CascadeUnprotectedTables ==
  \A id \in TableIdsInUse :
    IF id = AuthUsersTable
    THEN deleteTable(Store, id) = Store
    ELSE Unreferenced(deleteTable(Store, id), id)

\* The table selected in the Sidebar is not the protected one and is an end
\* of a relationship, which the Sidebar's delete button removes with it.
C3_Witness ==
  /\ selectedTableData # 0
  /\ selectedTable # AuthUsersTable
  /\ ~Unreferenced(Store, selectedTable)
  /\ Len(deleteTable(Store, selectedTable).relationships) < Len(relationships)
  /\ Len(deleteTable(Store, selectedTable).tables) < Len(tables)

\* C4: after deleteField(T, F) no relationship has field F of table T as its
\* source field or as its target field.
C4_FieldCascade ==
  \A tid \in TableIdsInUse, fid \in FieldIdsInUse :
    LET s2 == deleteField(Store, tid, fid)
    IN \A k \in DOMAIN s2.relationships :
         /\ ~(s2.relationships[k].source = tid /\ s2.relationships[k].sourceField = fid)
         /\ ~(s2.relationships[k].target = tid /\ s2.relationships[k].targetField = fid)

\* A field of the table selected in the Sidebar, one the Sidebar lets the
\* user delete, is an end of a relationship, which deleteField removes.
C4_Witness ==
  /\ selectedTableData # 0
  /\ \E j \in DOMAIN tables[selectedTableData].fields :
       LET f == tables[selectedTableData].fields[j]
       IN /\ ~f.isPrimaryKey
          /\ \E k \in DOMAIN relationships :
               <<selectedTable, f.id>> \in Ends(relationships[k])
          /\ Len(deleteField(Store, selectedTable, f.id).relationships)
               < Len(relationships)

\* C5: a request whose source and target are the same field of the same
\* table is turned down before any mutation, whichever entry point delivers
\* it: the drop of a field on itself, a connection drawn from a handle to
\* itself, or a createRelationship event whose detail names the field at both
\* ends.  Tables and relationships stay as they are.
C5_SameFieldRejected ==
  \A i \in DOMAIN tables, clock \in Clocks :
    \A j \in DOMAIN tables[i].fields :
      LET data == tables[i]
          field == tables[i].fields[j]
          h == HandleId(data, field)
      IN /\ handleDrop(Store, clock, DragData(data, field), data,
                       field).store = Store
         /\ onConnect(Store, clock, h, h).store = Store
         /\ handleCreateRelationship(Store, clock,
               DropDetail(DragData(data, field), data, field)).store = Store

\* What C6_DuplicateLeavesGraphUnchanged says of one request d.
DuplicateLeavesGraphUnchanged(d) ==
  \A clock \in Clocks :
    (/\ d.targetField # Null
     /\ <<d.source, d.sourceField>> # <<d.target, d.targetField>>
     /\ \E k \in DOMAIN relationships :
          Ends(relationships[k]) =
            {<<d.source, d.sourceField>>, <<d.target, d.targetField>>})
    => /\ Resolve(d, clock).store = Store
       /\ LastToast(Resolve(d, clock)) = DuplicateRelationship

\* C6: when the graph already holds a relationship linking A.x and B.y, a
\* further resolve(A.x -> B, targetField = B.y) is turned down as a duplicate
\* and leaves tables and relationships as they are.
C6_DuplicateLeavesGraphUnchanged == EveryDelivered(DuplicateLeavesGraphUnchanged)

\* What C7_InvalidReferenceNoMutation says of one request d.
InvalidReferenceNoMutation(d) ==
  \A clock \in Clocks :
    (\/ TableIndex(tables, d.source) = 0
     \/ ~FieldExists(tables, d.source, d.sourceField)
     \/ TableIndex(tables, d.target) = 0)
    => /\ Resolve(d, clock).store = Store
       /\ Resolve(d, clock).toasts = <<InvalidTableReference>>

\* C7: resolve fails with the invalid-reference toast and mutates nothing
\* whenever the source table, the source field within it, or the target
\* table does not exist.
C7_InvalidReferenceNoMutation == EveryDelivered(InvalidReferenceNoMutation)

\* Index of the first field of the table that has the name, 0 when no field
\* has it.
FirstNamed(table, name) ==
  LET named == {j \in DOMAIN table.fields : table.fields[j].name = name}
  IN IF named = {} THEN 0 ELSE CHOOSE j \in named : \A k \in named : j <= k

\* The request needs its target field resolved: none was dropped on, or the
\* one dropped on has a type incompatible with the source type.
Unresolved(d, sourceType) ==
  d.targetField = Null \/ ~areTypesCompatible(sourceType, d.targetFieldType)

\* r added exactly the relationship rel to the graph.
AddedRelationship(r) ==
  /\ r.newRelationship # << >>
  /\ r.store.relationships = Append(relationships, r.newRelationship[1])

RejectedAsDuplicate(r) ==
  /\ r.newRelationship = << >>
  /\ LastToast(r) = DuplicateRelationship
  /\ r.store.relationships = relationships

\* What C8_ReuseSameNamedCompatible says of one request d.
ReuseSameNamedCompatible(d) ==
  \A clock \in Clocks :
    LET sf == FieldAt(tables, d.source, d.sourceField)
        ti == TableIndex(tables, d.target)
        fits == {j \in DOMAIN tables[ti].fields :
                   /\ tables[ti].fields[j].name = sf[1].name
                   /\ areTypesCompatible(sf[1].type, tables[ti].fields[j].type)}
        r == Resolve(d, clock)
    IN (/\ sf # << >> /\ ti # 0
        /\ Unresolved(d, sf[1].type)
        /\ fits # {})
       => /\ r.store.tables = tables
          /\ \/ /\ AddedRelationship(r)
                /\ \E j \in fits :
                     r.newRelationship[1].targetField = tables[ti].fields[j].id
             \/ RejectedAsDuplicate(r)

ReuseFirstSameNamedCompatible(d) ==
  \A clock \in Clocks :
    LET si == TableIndex(tables, d.source)
        ti == TableIndex(tables, d.target)
        fi == FirstNamed(tables[ti], d.sourceFieldName)
        r == Resolve(d, clock)
    IN (/\ si # 0 /\ ti # 0
        /\ Unresolved(d, d.sourceFieldType)
        /\ fi # 0
        /\ areTypesCompatible(d.sourceFieldType, tables[ti].fields[fi].type))
       => /\ r.store.tables = tables
          /\ \/ /\ AddedRelationship(r)
                /\ r.newRelationship[1].targetField = tables[ti].fields[fi].id
             \/ /\ RejectedAsDuplicate(r)
                /\ \E k \in DOMAIN relationships :
                     Ends(relationships[k]) =
                       {<<d.source, d.sourceField>>,
                        <<d.target, tables[ti].fields[fi].id>>}

ReusesExistingField(d) ==
  /\ d.source # d.target
  /\ Unresolved(d, d.sourceFieldType)
  /\ \A clock \in Clocks :
       /\ Resolve(d, clock).toasts = <<UsingExistingField, RelationshipCreated>>
       /\ Resolve(d, clock).store.tables = tables
       /\ Len(Resolve(d, clock).store.relationships) = Len(relationships) + 1

CreatesMatchingField(d) ==
  \A clock \in Clocks :
    LET si == TableIndex(tables, d.source)
        ti == TableIndex(tables, d.target)
        named == {j \in DOMAIN tables[ti].fields :
                    tables[ti].fields[j].name = d.sourceFieldName}
        r == Resolve(d, clock)
        after == r.store.tables
        new == after[ti].fields[Len(after[ti].fields)]
    IN (/\ si # 0 /\ ti # 0
        /\ Unresolved(d, d.sourceFieldType)
        /\ \A j \in named :
             ~areTypesCompatible(d.sourceFieldType, tables[ti].fields[j].type))
       => /\ Len(after) = Len(tables)
          /\ \A i \in DOMAIN tables :
               after[i] = IF i = ti
                          THEN [tables[i] EXCEPT !.fields = Append(@, new)]
                          ELSE tables[i]
          /\ Len(after[ti].fields) = Len(tables[ti].fields) + 1
          /\ new.type = d.sourceFieldType
          /\ new.isForeignKey /\ new.isNullable /\ ~new.isUnique
          /\ new.references = <<[table |-> d.source, field |-> d.sourceField]>>
          /\ new.name = IF named # {} THEN d.sourceFieldName \o "_ref"
                        ELSE d.sourceFieldName
          /\ AddedRelationship(r)
          /\ r.newRelationship[1].targetField = new.id
          /\ FieldAt(after, d.target, new.id) = <<new>>

\* C9: when target-field resolution finds no same-named field of compatible
\* type, resolve appends exactly one new field at the end of the target
\* table's field list and uses it as the relationship's target; the field has
\* the source field's type, isForeignKey, isNullable, not isUnique, references
\* the source table and field, and is named <sourceFieldName>_ref if a
\* same-named (incompatible) field exists, the source field's name otherwise.
C9_CreatesMatchingField == EveryDelivered(CreatesMatchingField)

\* What C10_ResolverTotality says of one request d.
ResolverTotality(d) ==
  \A clock \in Clocks :
    LET r == Resolve(d, clock)
        rel == r.newRelationship[1]
        from == FieldAt(r.store.tables, rel.source, rel.sourceField)
        to == FieldAt(r.store.tables, rel.target, rel.targetField)
    IN (/\ d.targetField # Null
        /\ FieldExists(tables, d.source, d.sourceField)
        /\ FieldExists(tables, d.target, d.targetField)
        /\ <<d.source, d.sourceField>> # <<d.target, d.targetField>>)
       => \/ /\ AddedRelationship(r)
             /\ from # << >> /\ to # << >>
             /\ areTypesCompatible(from[1].type, to[1].type)
          \/ /\ r.newRelationship = << >>
             /\ r.store.relationships = relationships
             /\ LastToast(r) \in {InvalidTableReference, FieldCreationFailed,
                                  DuplicateRelationship}

\* C10: for two existing, distinct fields, resolve ends in exactly one of two
\* outcomes: a relationship is added whose two endpoints exist and have
\* compatible types, or the request is turned down with one of the resolver's
\* rejections and no relationship is added; it is never turned down for the
\* types being incompatible.
C10_ResolverTotality == EveryDelivered(ResolverTotality)

\* The ids of a sequence of records are pairwise distinct.
DistinctIds(s) == \A i, j \in DOMAIN s : s[i].id = s[j].id => i = j

\* What C11_IdsUnique says of one request d: the relationship resolve adds
\* has an id no relationship of the graph has, and afterwards the field ids
\* of every table are still pairwise distinct.
FreshIds(d) ==
  \A clock \in Clocks :
    LET r == Resolve(d, clock)
    IN /\ r.newRelationship # << >> =>
            \A k \in DOMAIN relationships :
              relationships[k].id # r.newRelationship[1].id
       /\ \A i \in DOMAIN r.store.tables : DistinctIds(r.store.tables[i].fields)

\* C11: identifiers stay unique under resolve, add-field and add-table, also
\* within one clock millisecond: relationship ids are pairwise distinct, the
\* field ids of each table are pairwise distinct, and every resolve keeps it so.
C11_IdsUnique ==
  /\ DistinctIds(relationships)
  /\ \A i \in DOMAIN tables : DistinctIds(tables[i].fields)
  /\ EveryDelivered(FreshIds)

\* An id no table and no field of the model's designs and handlers has.
GhostId == <<"ghost">>

\* Relationship records of which an endpoint names no existing field of an
\* existing table.
DanglingRelationships ==
  {rel \in [id : {<<"rel", "x">>},
            source : TableIdsInUse \cup {GhostId},
            target : TableIdsInUse \cup {GhostId},
            sourceField : FieldIdsInUse \cup {GhostId},
            targetField : FieldIdsInUse \cup {GhostId},
            type : {"one-to-many"}] :
     \/ ~FieldExists(tables, rel.source, rel.sourceField)
     \/ ~FieldExists(tables, rel.target, rel.targetField)}

\* C12: addRelationship(rel) turns down a relationship whose source table,
\* source field, target table or target field does not exist: the relationship
\* list stays as it is.
C12_AddRelationshipRejectsDangling ==
  \A rel \in DanglingRelationships :
    addRelationship(Store, rel).relationships = relationships

\* ------------------------------------------------ generated schema merge
\* `value || fallback` and `value !== undefined ? value : fallback` for a
\* property of the service's JSON, held as a sequence of length at most one.
OrElse(value, fallback) == IF value = << >> THEN fallback ELSE value[1]

\* A field of the service's JSON response: id, name, type and references as
\* sent, the four flags present or absent.
ResponseField(name, type, pk, fk, unique, nullable, references) ==
  [id |-> <<name>>, name |-> name, type |-> type,
   isPrimaryKey |-> pk, isForeignKey |-> fk, isUnique |-> unique,
   isNullable |-> nullable, references |-> references]

\* modifySchemaWithAI's completion of a field of the response: absent flags
\* get their defaults, everything else (references included) is kept.
completeField(field) ==
  [field EXCEPT
     !.isPrimaryKey = OrElse(field.isPrimaryKey, FALSE),
     !.isForeignKey = OrElse(field.isForeignKey, FALSE),
     !.isUnique = OrElse(field.isUnique, OrElse(field.isPrimaryKey, FALSE)),
     !.isNullable = OrElse(field.isNullable, ~OrElse(field.isPrimaryKey, FALSE))]

\* modifySchemaWithAI's result for a parsed response.
modifySchemaWithAI(response) ==
  [tables |->
     [i \in DOMAIN response.tables |->
        [id |-> response.tables[i].id,
         name |-> response.tables[i].name,
         fields |-> [j \in DOMAIN response.tables[i].fields |->
                       completeField(response.tables[i].fields[j])],
         enableRLS |-> OrElse(response.tables[i].enableRLS, TRUE),
         policies |-> response.tables[i].policies]],
   relationships |-> response.relationships]

\* A response to "link posts to users": posts gets an author column that
\* references users.id, sent with its references and none of the flags
\* except on the keys, and the relationship for it.
LinkedPostsResponse ==
  [tables |->
     <<[id |-> <<"users">>, name |-> "users", enableRLS |-> << >>,
        policies |-> << >>,
        fields |-> <<ResponseField("id", "uuid", <<TRUE>>, << >>, << >>, << >>, << >>)>>],
       [id |-> <<"posts">>, name |-> "posts", enableRLS |-> << >>,
        policies |-> << >>,
        fields |-> <<ResponseField("id", "uuid", <<TRUE>>, << >>, << >>, << >>, << >>),
                     ResponseField("author", "uuid", << >>, << >>, << >>, << >>,
                                   <<[table |-> <<"users">>, field |-> <<"id">>]>>)>>]>>,
   relationships |->
     <<[id |-> <<"rel", "author">>, source |-> <<"posts">>, target |-> <<"users">>,
        sourceField |-> <<"author">>, targetField |-> <<"id">>,
        type |-> "one-to-many"]>>]

Responses == {LinkedPostsResponse}

\* AIChat.handleSend once the service has answered: the completed response
\* replaces the design.
handleSend(s, response) ==
  loadDesign(s, modifySchemaWithAI(response).tables,
             modifySchemaWithAI(response).relationships, Null, Null)

\* Every field of tbls is flagged a foreign key exactly when it carries a
\* references entry.
ForeignKeysConsistent(tbls) ==
  \A i \in DOMAIN tbls :
    \A j \in DOMAIN tbls[i].fields :
      tbls[i].fields[j].isForeignKey <=> tbls[i].fields[j].references # << >>

\* What C13_ForeignKeyFlagMatchesReferences says of one request d.
ResolveKeepsForeignKeys(d) ==
  \A clock \in Clocks : ForeignKeysConsistent(Resolve(d, clock).store.tables)

\* C13: each field has isForeignKey = true exactly when it carries a
\* references entry, in every reachable state (after updateField patches and
\* after deletions), after resolve, and after a generated schema is merged.
C13_ForeignKeyFlagMatchesReferences ==
  /\ ForeignKeysConsistent(tables)
  /\ EveryDelivered(ResolveKeepsForeignKeys)
  /\ \A response \in Responses :
       ForeignKeysConsistent(handleSend(Store, response).tables)

\* C14: for all pairs of type strings (a, b), areTypesCompatible(a, b) ends
\* as areTypesCompatible(b, a) does.
C14_Symmetry ==
  compatible # << >> => compatible[1] = areTypesCompatibleOutcome(type2, type1)

\* The oracle has been called with two different types and found them
\* compatible.
C14_Witness == type1 # type2 /\ compatible = <<"true">>

\* C15: areTypesCompatible is total and returns false for unknown types: when
\* one of the two types has no entry in the rule table the call raises no
\* exception and its result is false.
C15_UnknownTypesIncompatible ==
  (compatible # << >> /\ (type1 \notin KnownTypes \/ type2 \notin KnownTypes))
    => compatible = <<"false">>

\* The selection deleteTable(id) leaves: none when the deleted table was the
\* selected one, the selection as it was otherwise.
SelectionAfterDelete(id) == IF selectedTable = id THEN Null ELSE selectedTable

\* C16: deleteTable(id) sets selectedTable to null when selectedTable equals
\* id, and leaves selectedTable unchanged otherwise, for every id.
C16_DeleteClearsSelection ==
  \A id \in TableIdsInUse \cup {GhostId} :
    deleteTable(Store, id).selectedTable = SelectionAfterDelete(id)

\* C16, amended: the same for every id but that of the protected auth.users
\* table; deleteTable of the protected table leaves the store as it is, the
\* selection included.
C16_DeleteClearsSelectionUnprotected ==
  /\ \A id \in (TableIdsInUse \cup {GhostId}) \ {AuthUsersTable} :
       deleteTable(Store, id).selectedTable = SelectionAfterDelete(id)
  /\ deleteTable(Store, AuthUsersTable) = Store

\* A table other than the protected one is selected next to another table,
\* and deleting it clears the selection while deleting the other keeps it.
C16_Witness ==
  /\ selectedTableData # 0
  /\ selectedTable # AuthUsersTable
  /\ deleteTable(Store, selectedTable).selectedTable = Null
  /\ \E i \in DOMAIN tables :
       /\ tables[i].id \notin {selectedTable, AuthUsersTable}
       /\ deleteTable(Store, tables[i].id).selectedTable = selectedTable

\* ------------------------------------------------------------ persistence
\* The in-memory part of a store value.
InMemory(s) ==
  [tables |-> s.tables, relationships |-> s.relationships,
   currentDesignId |-> s.currentDesignId,
   currentDesignName |-> s.currentDesignName]

\* Relationships handed to addRelationship.
SomeRelationships ==
  {[id |-> <<"rel", "x">>, source |-> a, target |-> b,
    sourceField |-> <<"id">>, targetField |-> <<"id">>, type |-> "one-to-many"] :
     a \in TableIdsInUse \cup {GhostId}, b \in TableIdsInUse \cup {GhostId}}

\* The store values the mutating store operations return when applied to s,
\* a store value with the graph of the current state: add, update and delete
\* of a table, field, relationship and policy, loadDesign and clearDesign.
\* updateTable and deleteTable of the protected table return before they
\* write and are left out.
MutationOutcomes(s) ==
  LET tids == (TableIdsInUse \cup {GhostId}) \ {AuthUsersTable}
      tidsAll == TableIdsInUse \cup {GhostId}
      fids == FieldIdsInUse \cup {GhostId}
      rids == {relationships[k].id : k \in DOMAIN relationships} \cup {GhostId}
      pids == UNION {{tables[i].policies[j].id : j \in DOMAIN tables[i].policies} :
                       i \in DOMAIN tables} \cup {GhostId}
  IN {addTable(s, NewTable(s.tables, clock)) : clock \in Clocks}
     \cup {updateTable(s, id, [enableRLS |-> b]) : id \in tids, b \in BOOLEAN}
     \cup {deleteTable(s, id) : id \in tids}
     \cup {addField(s, id, SidebarNewField(n, t, now)) :
             id \in tidsAll, n \in NewFieldNames, t \in NewFieldTypes}
     \cup {updateField(s, x[1], x[2], x[3]) : x \in tidsAll \X fids \X FieldPatches}
     \cup {deleteField(s, x[1], x[2]) : x \in tidsAll \X fids}
     \cup {addRelationship(s, rel) : rel \in SomeRelationships}
     \cup {updateRelationship(s, id, [type |-> t]) : id \in rids, t \in RelationshipTypes}
     \cup {deleteRelationship(s, id) : id \in rids}
     \cup {addPolicy(s, id, NewPolicy(n, now)) : id \in tidsAll, n \in PolicyNames}
     \cup {updatePolicy(s, x[1], x[2], [role |-> "anon"]) : x \in tidsAll \X pids}
     \cup {deletePolicy(s, x[1], x[2]) : x \in tidsAll \X pids}
     \cup {loadDesign(s, d.tables, d.relationships, d.id, d.name) : d \in Designs}
     \cup {clearDesign(s)}

\* C17: after a mutating store operation returns and its storage write
\* succeeded, the persisted 'database-schema' snapshot equals the in-memory
\* {tables, relationships}.
C17_SnapshotFollowsMutation ==
  ~quotaExceeded =>
    \A o \in MutationOutcomes(Store) : o.databaseSchema = <<Snapshot(o)>>

\* A mutation has been written: storage has room and the stored snapshot is
\* that of a graph with a table.
C17_Witness ==
  /\ ~quotaExceeded
  /\ tables # << >>
  /\ databaseSchema = <<Snapshot(Store)>>

\* C18: a failed save leaves the in-memory tables, relationships and current
\* design id and name as they were after the mutation: with the storage full
\* every mutating operation leaves in memory what it leaves when the write
\* succeeds, and leaves the stored item alone; a save to the design service
\* that fails changes nothing; and a retry of the local write stores the graph
\* the failed write was given.
C18_FailedSaveKeepsMemory ==
  /\ quotaExceeded =>
       /\ {InMemory(o) : o \in MutationOutcomes(Store)}
            = {InMemory(o) :
                 o \in MutationOutcomes([Store EXCEPT !.quotaExceeded = FALSE])}
       /\ \A o \in MutationOutcomes(Store) :
            /\ o.databaseSchema = databaseSchema
            /\ saveToStorage([o EXCEPT !.quotaExceeded = FALSE]).databaseSchema
                 = <<Snapshot(o)>>
       /\ InMemory(saveToStorage(Store)) = InMemory(Store)
  /\ \A name \in DesignNames :
       InMemory(handleSave(Store, name, << >>)) = InMemory(Store)

\* A write has failed: the storage is full and holds a snapshot older than
\* the graph in memory, which has a table.
C18_Witness ==
  /\ quotaExceeded
  /\ tables # << >>
  /\ databaseSchema # <<Snapshot(Store)>>

\* ------------------------------------------------------ the script emitter
\* scriptGenerator.ts, generateManualSupabaseScript: the script as the
\* sequence of its SQL statements in the order the code appends them; the
\* header comment and the `-- ...` comment lines are no statements.  A
\* statement is [kind, table, detail]: what it creates or alters, the name
\* of the table it is about, and the names that tell it from its like.
\* Fields of the model carry no defaultValue, so column definitions have no
\* DEFAULT clause but the ones the emitter writes itself.
Statement(kind, table, detail) ==
  [kind |-> kind, table |-> table, detail |-> detail]

\* the fieldDefinitions.map callback
fieldDefinition(field) ==
  field.name \o " " \o field.type
    \o (IF field.isPrimaryKey
        THEN IF field.type = "uuid"
             THEN " DEFAULT gen_random_uuid() PRIMARY KEY"
             ELSE " PRIMARY KEY"
        ELSE "")
    \o (IF ~field.isNullable THEN " NOT NULL" ELSE "")
    \o (IF field.isUnique /\ ~field.isPrimaryKey THEN " UNIQUE" ELSE "")

\* table.fields.some(f => f.name === name)
hasColumn(table, name) ==
  \E i \in DOMAIN table.fields : table.fields[i].name = name

\* the body of the first tables.forEach
createTable(table) ==
  Statement("CREATE TABLE", table.name,
            [i \in DOMAIN table.fields |-> fieldDefinition(table.fields[i])]
              \o (IF ~hasColumn(table, "created_at")
                  THEN <<"created_at timestamptz DEFAULT now() NOT NULL">>
                  ELSE << >>)
              \o (IF ~hasColumn(table, "updated_at")
                  THEN <<"updated_at timestamptz DEFAULT now() NOT NULL">>
                  ELSE << >>))

\* The four lookups of a relationships.forEach callback: << >> when a table
\* or a field is not found, else the tables and fields found.
relationshipEnds(tbls, rel) ==
  LET isSource(t) == t.id = rel.source
      isTarget(t) == t.id = rel.target
      si == FirstIndex(tbls, isSource)
      ti == FirstIndex(tbls, isTarget)
  IN IF si = 0 \/ ti = 0 THEN << >>
     ELSE LET isSourceField(f) == f.id = rel.sourceField
              isTargetField(f) == f.id = rel.targetField
              sfi == FirstIndex(tbls[si].fields, isSourceField)
              tfi == FirstIndex(tbls[ti].fields, isTargetField)
          IN IF sfi = 0 \/ tfi = 0 THEN << >>
             ELSE <<[sourceTable |-> tbls[si], targetTable |-> tbls[ti],
                     sourceField |-> tbls[si].fields[sfi],
                     targetField |-> tbls[ti].fields[tfi]]>>

\* A foreign-key loop that puts the constraint on the target side.
foreignKeyConstraintOnTarget(tbls, rel) ==
  LET ends == relationshipEnds(tbls, rel)
  IN IF ends = << >> THEN << >>
     ELSE <<Statement("ADD CONSTRAINT", ends[1].targetTable.name,
                      <<ends[1].targetTable.name \o "_"
                          \o ends[1].targetField.name \o "_fkey",
                        ends[1].targetField.name,
                        ends[1].sourceTable.name,
                        ends[1].sourceField.name>>)>>

\* the body of the first relationships.forEach
foreignKeyConstraint(tbls, rel) ==
  LET ends == relationshipEnds(tbls, rel)
  IN IF ends = << >> THEN << >>
     ELSE <<Statement("ADD CONSTRAINT", ends[1].sourceTable.name,
                      <<ends[1].sourceTable.name \o "_"
                          \o ends[1].sourceField.name \o "_fkey",
                        ends[1].sourceField.name,
                        ends[1].targetTable.name,
                        ends[1].targetField.name>>)>>

\* A tables.forEach body for row level security that writes no default
\* policy.
rowLevelSecurityNoDefault(table) ==
  IF ~table.enableRLS THEN << >>
  ELSE <<Statement("ENABLE ROW LEVEL SECURITY", table.name, << >>)>>
         \o [i \in DOMAIN table.policies |->
               Statement("CREATE POLICY", table.name,
                         <<table.policies[i].name, "undefined",
                           table.policies[i].role>>)]

\* The body of the second tables.forEach; the detail of a CREATE POLICY is
\* its name, its FOR clause, its TO clause and, when it has one, its USING
\* clause.  A policy of the store has a command and a check, no operation
\* and no withCheck: the FOR clause reads `undefined` and the WITH CHECK
\* clause is never written.  Policies of the model carry no using.
rowLevelSecurity(table) ==
  IF ~table.enableRLS THEN << >>
  ELSE <<Statement("ENABLE ROW LEVEL SECURITY", table.name, << >>)>>
         \o (IF table.policies = << >>
             THEN <<Statement("CREATE POLICY", table.name,
                              <<table.name \o "_authenticated_policy",
                                "ALL", "authenticated",
                                "auth.uid() IS NOT NULL">>)>>
             ELSE [i \in DOMAIN table.policies |->
                     Statement("CREATE POLICY", table.name,
                               <<table.policies[i].name, "undefined",
                                 table.policies[i].role>>)])

\* the body of the second relationships.forEach
foreignKeyIndex(tbls, rel) ==
  LET isSource(t) == t.id = rel.source
      si == FirstIndex(tbls, isSource)
  IN IF si = 0 THEN << >>
     ELSE LET isSourceField(f) == f.id = rel.sourceField
              sfi == FirstIndex(tbls[si].fields, isSourceField)
          IN IF sfi = 0 THEN << >>
             ELSE <<Statement("CREATE INDEX", tbls[si].name,
                              <<"idx_" \o tbls[si].name \o "_"
                                  \o tbls[si].fields[sfi].name,
                                tbls[si].fields[sfi].name>>)>>

\* The body of the third tables.forEach, with the function definition
\* inside the loop and under the same condition as the trigger.
updatedAtTrigger(table) ==
  IF ~hasColumn(table, "updated_at")
  THEN <<Statement("CREATE FUNCTION", "", <<"update_updated_at_column">>),
         Statement("CREATE TRIGGER", table.name,
                   <<"update_" \o table.name \o "_updated_at",
                     "update_updated_at_column">>)>>
  ELSE << >>

\* script += ... over a forEach: the statements of the elements, in order
RECURSIVE Appended(_)
Appended(parts) ==
  IF parts = << >> THEN << >> ELSE Head(parts) \o Appended(Tail(parts))

generateManualSupabaseScript(schema) ==
  LET tbls == schema.tables
      rels == schema.relationships
  IN [i \in DOMAIN tbls |-> createTable(tbls[i])]
       \o Appended([i \in DOMAIN rels |-> foreignKeyConstraint(tbls, rels[i])])
       \o Appended([i \in DOMAIN tbls |-> rowLevelSecurity(tbls[i])])
       \o Appended([i \in DOMAIN rels |-> foreignKeyIndex(tbls, rels[i])])
       \o Appended([i \in DOMAIN tbls |-> updatedAtTrigger(tbls[i])])

\* generateSupabaseScript without an OpenAI client: '-- No tables defined',
\* a script of no statement, for a schema of no table, the manual script
\* for any other.
generateSupabaseScript(schema) ==
  IF schema.tables = << >> THEN << >>
  ELSE generateManualSupabaseScript(schema)

\* ScriptModal's script on its Supabase tab: its effect generates the
\* script again whenever store.tables or store.relationships change.
ScriptModalScript ==
  generateSupabaseScript([tables |-> tables, relationships |-> relationships])

\* ------------------------------------------------------------ C19 and C20
\* The section of the script a statement belongs to, in the order the
\* sections are to appear.
Section(statement) ==
  CASE statement.kind = "CREATE TABLE" -> 1
    [] statement.kind = "ADD CONSTRAINT" -> 2
    [] statement.kind = "ENABLE ROW LEVEL SECURITY" -> 3
    [] statement.kind = "CREATE POLICY" -> 4
    [] statement.kind = "CREATE INDEX" -> 5
    [] statement.kind \in {"CREATE FUNCTION", "CREATE TRIGGER"} -> 6

\* C19: the statements of the emitted script follow the section order: the
\* CREATE TABLE statements, then the foreign-key ALTER TABLE statements,
\* then the ENABLE ROW LEVEL SECURITY statements, then the CREATE POLICY
\* statements, then the CREATE INDEX statements, then the trigger function
\* and the CREATE TRIGGER statements; no statement of a later section comes
\* before a statement of an earlier one.
C19_SectionOrder ==
  \A i, j \in DOMAIN ScriptModalScript :
    i < j => Section(ScriptModalScript[i]) <= Section(ScriptModalScript[j])

\* How many statements of a script define the function
\* update_updated_at_column.
TriggerFunctionDefinitions(script) ==
  Cardinality({i \in DOMAIN script : script[i].kind = "CREATE FUNCTION"})

\* C20: the script emitted for a schema with tables defines the trigger
\* function update_updated_at_column exactly once, however many tables the
\* schema has.
C20_TriggerFunctionOnce ==
  tables # << >> => TriggerFunctionDefinitions(ScriptModalScript) = 1

\* -------------------------------------------------------------------- C21
\* How many CREATE TRIGGER statements of a script are on the table of the
\* given name.
TriggersOn(script, name) ==
  Cardinality({i \in DOMAIN script :
                 script[i].kind = "CREATE TRIGGER" /\ script[i].table = name})

\* C21: the emitted script has one CREATE TRIGGER statement for each table
\* that has a field named updated_at and none for a table without such a
\* field.
C21_TriggerPerUpdatedAtTable ==
  \A i \in DOMAIN tables :
    TriggersOn(ScriptModalScript, tables[i].name)
      = Cardinality({j \in DOMAIN tables :
                       /\ tables[j].name = tables[i].name
                       /\ hasColumn(tables[j], "updated_at")})

\* -------------------------------------------------------------------- C22
\* A structurally valid schema: table ids are pairwise distinct, the field
\* ids of each table are pairwise distinct, and both endpoints of every
\* relationship are fields of tables of the schema.
StructurallyValid ==
  /\ DistinctIds(tables)
  /\ \A i \in DOMAIN tables : DistinctIds(tables[i].fields)
  /\ \A k \in DOMAIN relationships :
       /\ FieldExists(tables, relationships[k].source, relationships[k].sourceField)
       /\ FieldExists(tables, relationships[k].target, relationships[k].targetField)

\* The table of the given id, and its field of the given id, in a
\* structurally valid schema.
TableWithId(id) == CHOOSE t \in {tables[i] : i \in DOMAIN tables} : t.id = id

FieldWithId(table, id) ==
  CHOOSE f \in {table.fields[i] : i \in DOMAIN table.fields} : f.id = id

\* The foreign-key statements of a script, in the order they appear.
IsForeignKeyStatement(statement) == statement.kind = "ADD CONSTRAINT"

ForeignKeyStatements(script) == SelectSeq(script, IsForeignKeyStatement)

\* C22: for a structurally valid schema the emitted script has exactly one
\* ADD CONSTRAINT ... FOREIGN KEY statement per relationship, in the order
\* of the relationships; each is on the relationship's source table, with
\* the source field as the constrained column, and references the target
\* field of the target table.
C22_ForeignKeyPerRelationship ==
  StructurallyValid =>
    LET fks == ForeignKeyStatements(ScriptModalScript)
    IN /\ Len(fks) = Len(relationships)
       /\ \A k \in DOMAIN relationships :
            LET rel == relationships[k]
                source == TableWithId(rel.source)
                target == TableWithId(rel.target)
            IN /\ fks[k].table = source.name
               /\ fks[k].detail[2] = FieldWithId(source, rel.sourceField).name
               /\ fks[k].detail[3] = target.name
               /\ fks[k].detail[4] = FieldWithId(target, rel.targetField).name

\* Two relationships of a structurally valid schema whose constraints
\* differ, so that their order shows in the script.
C22_Witness ==
  /\ StructurallyValid
  /\ Len(relationships) = 2
  /\ LET fks == ForeignKeyStatements(ScriptModalScript)
     IN Len(fks) = 2 /\ fks[1] # fks[2]

\* -------------------------------------------------------------------- C23
\* The row level security statements of a script, in the order they appear.
IsSecurityStatement(statement) ==
  statement.kind \in {"ENABLE ROW LEVEL SECURITY", "CREATE POLICY"}

SecurityStatements(script) == SelectSeq(script, IsSecurityStatement)

\* What C23 expects of one table: nothing when row level security is off;
\* else the ENABLE ROW LEVEL SECURITY statement, followed by one policy for
\* role authenticated using auth.uid() IS NOT NULL when the table stores no
\* policy, and by the stored policies, by name and role and in their order,
\* when it stores some.
ExpectedSecurity(table) ==
  IF table.enableRLS
  THEN <<[kind |-> "ENABLE ROW LEVEL SECURITY", table |-> table.name,
          policy |-> "", role |-> "", using |-> ""]>>
         \o (IF Len(table.policies) = 0
             THEN <<[kind |-> "CREATE POLICY", table |-> table.name,
                     policy |-> table.name \o "_authenticated_policy",
                     role |-> "authenticated",
                     using |-> "auth.uid() IS NOT NULL"]>>
             ELSE [i \in DOMAIN table.policies |->
                     [kind |-> "CREATE POLICY", table |-> table.name,
                      policy |-> table.policies[i].name,
                      role |-> table.policies[i].role,
                      using |-> ""]])
  ELSE << >>

\* A security statement by kind, table, policy name, role and USING clause.
SecurityOf(statement) ==
  [kind |-> statement.kind, table |-> statement.table,
   policy |-> IF Len(statement.detail) >= 1 THEN statement.detail[1] ELSE "",
   role |-> IF Len(statement.detail) >= 3 THEN statement.detail[3] ELSE "",
   using |-> IF Len(statement.detail) >= 4 THEN statement.detail[4] ELSE ""]

\* C23: for each table with enableRLS = true the emitted script has one
\* CREATE POLICY per stored policy, in the order the policies are stored,
\* or exactly one default policy for role authenticated using
\* auth.uid() IS NOT NULL when the table stores none; for a table with
\* enableRLS = false it has neither an ENABLE ROW LEVEL SECURITY statement
\* nor a policy.
C23_PoliciesPerTable ==
  LET found == SecurityStatements(ScriptModalScript)
      expected == Appended([i \in DOMAIN tables |-> ExpectedSecurity(tables[i])])
  IN /\ Len(found) = Len(expected)
     /\ \A k \in DOMAIN found : SecurityOf(found[k]) = expected[k]

\* A schema with a table without row level security and a table with row
\* level security that stores two policies of different names.
C23_Witness ==
  /\ \E i \in DOMAIN tables : ~tables[i].enableRLS
  /\ \E i \in DOMAIN tables :
       /\ tables[i].enableRLS
       /\ Len(tables[i].policies) = 2
       /\ tables[i].policies[1].name # tables[i].policies[2].name
  /\ SecurityStatements(ScriptModalScript) # << >>

\* ------------------------------------------------------- the script export
\* ScriptModal on its Supabase tab: its effect calls generateSupabaseScript
\* with the store's tables and relationships and shows what it returns.
\* The modal covers the designer, so the schema is the one it was opened on.
\*
\* A script is [by, statements, content]: written by the emitter, as its
\* statements, or by the generation service, as the kind of content the
\* service sent.
ManualScript(schema) ==
  [by |-> "emitter", statements |-> generateManualSupabaseScript(schema),
   content |-> ""]

\* '-- No tables defined'
NoTablesDefined == [by |-> "emitter", statements |-> << >>, content |-> ""]

ServiceScript(content) ==
  [by |-> "service", statements |-> << >>, content |-> content]

\* The ways openai.chat.completions.create ends:
\*   "script"   message.content is an SQL script with CREATE TABLE statements
\*   "fenced"   message.content has the words CREATE TABLE but is no script
\*              that runs: wrapped in a markdown fence, or cut at max_tokens
\*   "prose"    message.content without the words CREATE TABLE
\*   "empty"    message.content is null or ''
\*   "error"    the promise rejects: API error, network failure
\*   "timeout"  no response; the client's request timeout rejects the promise
Completions == {"script", "fenced", "prose", "empty", "error", "timeout"}

\* script.includes('CREATE TABLE')
IncludesCreateTable(completion) == completion \in {"script", "fenced"}

\* generateSupabaseScriptWithAI once the completion is there: the script it
\* returns as a sequence of length one, << >> when it throws.
generateSupabaseScriptWithAI(tbls, completion) ==
  IF completion \in {"error", "timeout"} THEN << >>
  ELSE IF completion = "empty" THEN << >>
  ELSE IF ~IncludesCreateTable(completion) /\ Len(tbls) > 0 THEN << >>
  ELSE <<ServiceScript(completion)>>

\* The ways the call of testOpenAIConnection ends that generateSupabaseScript
\* tells apart: it resolves to true, it resolves to false, it throws (a
\* request timeout is one of its errors).
Connections == {"true", "false", "throws"}

\* The modal is opened: generateSupabaseScript runs up to its first await.
OpenScriptModal ==
  /\ isGenerating = "closed"
  /\ Idle
  /\ ops' = ops + 1
  /\ answers' = << >>
  /\ IF tables = << >>
     THEN isGenerating' = "shown" /\ generatedScript' = <<NoTablesDefined>>
     ELSE IF ~openai
     THEN /\ isGenerating' = "shown"
          /\ generatedScript' = <<ManualScript([tables |-> tables,
                                               relationships |-> relationships])>>
     ELSE isGenerating' = "testOpenAIConnection" /\ generatedScript' = << >>
  /\ UNCHANGED <<tables, relationships, selectedTable, selectedRelationship,
                 now, drag, storageVars, oracleVars, openai, chatVars>>

\* await testOpenAIConnection() settles.
TestOpenAIConnectionSettles ==
  \E isConnected \in Connections :
    /\ isGenerating = "testOpenAIConnection"
    /\ answers' = Append(answers, isConnected)
    /\ IF isConnected = "true"
       THEN isGenerating' = "generateSupabaseScriptWithAI" /\ generatedScript' = << >>
       ELSE /\ isGenerating' = "shown"
            /\ generatedScript' = <<ManualScript([tables |-> tables,
                                                 relationships |-> relationships])>>
    /\ UNCHANGED <<tables, relationships, selectedTable, selectedRelationship,
                   now, drag, ops, storageVars, oracleVars, openai, chatVars>>

\* await generateSupabaseScriptWithAI(tables, relationships) settles.
CompletionSettles ==
  \E completion \in Completions :
    /\ isGenerating = "generateSupabaseScriptWithAI"
    /\ answers' = Append(answers, completion)
    /\ isGenerating' = "shown"
    /\ generatedScript' =
         LET script == generateSupabaseScriptWithAI(tables, completion)
         IN IF script # << >> THEN script
            ELSE <<ManualScript([tables |-> tables,
                                 relationships |-> relationships])>>
    /\ UNCHANGED <<tables, relationships, selectedTable, selectedRelationship,
                   now, drag, ops, storageVars, oracleVars, openai, chatVars>>

\* onClose
CloseScriptModal ==
  /\ isGenerating = "shown"
  /\ ops < MaxOps
  /\ ops' = ops + 1
  /\ isGenerating' = "closed"
  /\ answers' = << >>
  /\ generatedScript' = << >>
  /\ UNCHANGED <<tables, relationships, selectedTable, selectedRelationship,
                 now, drag, storageVars, oracleVars, openai, chatVars>>

\* The designer with or without an API key.
ExportInit ==
  /\ tables = << >>
  /\ relationships = << >>
  /\ selectedTable = Null
  /\ selectedRelationship = Null
  /\ now = 0
  /\ drag = NoDrag
  /\ ops = 0
  /\ currentDesignId = Null
  /\ currentDesignName = Null
  /\ databaseSchema = << >>
  /\ quotaExceeded = FALSE
  /\ type1 = NoType
  /\ type2 = NoType
  /\ compatible = << >>
  /\ openai \in BOOLEAN
  /\ isGenerating = "closed"
  /\ answers = << >>
  /\ generatedScript = << >>
  /\ currentSchema = << >>

\* Handlers of the designer, which the open modal covers.
ExportEdit ==
  /\ isGenerating = "closed"
  /\ \/ HandleAddTable
     \/ OnNodeClick
     \/ SidebarToggleRLS
     \/ LoadDesign

ExportNext ==
  \/ ExportEdit
  \/ OpenScriptModal
  \/ TestOpenAIConnectionSettles
  \/ CompletionSettles
  \/ CloseScriptModal

\* Every request to the service settles: the client answers each call with
\* a response, an error or its request timeout.
ExportSpec ==
  /\ ExportInit
  /\ [][ExportNext]_vars
  /\ WF_vars(TestOpenAIConnectionSettles)
  /\ WF_vars(CompletionSettles)

\* -------------------------------------------------------------------- C24
\* The answers after which the emitter's script is due: the service failed,
\* sent an empty or a malformed response, or did not respond.
FallbackAnswers ==
  {"false", "throws", "fenced", "prose", "empty", "error", "timeout"}

FellBack ==
  /\ isGenerating = "shown"
  /\ \E k \in DOMAIN answers : answers[k] \in FallbackAnswers

\* C24: a script export request always eventually returns a script, and
\* when the generation service failed, sent an empty or malformed response
\* or did not respond, the script returned is the emitter's for the schema
\* the request was given.
C24_ExportFallsBack ==
  /\ (isGenerating \in {"testOpenAIConnection", "generateSupabaseScriptWithAI"})
       ~> (isGenerating = "shown" /\ generatedScript # << >>)
  /\ [](FellBack =>
          generatedScript = <<ManualScript([tables |-> tables,
                                            relationships |-> relationships])>>)

\* -------------------------------------------------------------------- C25
\* C25: no relationship of the graph joins a field to itself: none has its
\* source table equal to its target table and its source field equal to its
\* target field, whatever the resolve calls that were made.
C25_NoSelfRelationship ==
  \A k \in DOMAIN relationships :
    ~(/\ relationships[k].source = relationships[k].target
      /\ relationships[k].sourceField = relationships[k].targetField)

\* -------------------------------------------------------------------- C26
\* Field fid of table tid is the source or the target of relationship r.
EndsAt(r, tid, fid) ==
  \/ r.source = tid /\ r.sourceField = fid
  \/ r.target = tid /\ r.targetField = fid

\* C26: deleteField(T, F), for a field F of table T, removes only the
\* relationships that have field F of table T as an endpoint: every other
\* relationship is kept, also one between fields of other tables whose
\* field id equals F.
C26_DeleteFieldKeepsOtherRelationships ==
  \A tid \in TableIdsInUse, fid \in FieldIdsInUse :
    FieldExists(tables, tid, fid) =>
      LET s2 == deleteField(Store, tid, fid)
      IN \A k \in DOMAIN relationships :
           ~EndsAt(relationships[k], tid, fid) =>
             \E m \in DOMAIN s2.relationships :
               s2.relationships[m] = relationships[k]

\* -------------------------------------------------------------------- C27
\* The type of field fid of table tid, NoType when there is no such field.
TypeOfField(tid, fid) ==
  IF FieldExists(tables, tid, fid)
  THEN FieldWithId(TableWithId(tid), fid).type
  ELSE NoType

\* C27: the source field and the target field of every relationship have
\* compatible types, as areTypesCompatible tells; updateField changing the
\* type of an end of a relationship leaves no relationship between
\* incompatible types.
C27_RelationshipTypesCompatible ==
  \A k \in DOMAIN relationships :
    LET rel == relationships[k]
    IN (/\ FieldExists(tables, rel.source, rel.sourceField)
        /\ FieldExists(tables, rel.target, rel.targetField)) =>
         areTypesCompatible(TypeOfField(rel.source, rel.sourceField),
                            TypeOfField(rel.target, rel.targetField))

\* -------------------------------------------------------------------- C28
\* No table has two fields of the same name.
DistinctFieldNames(tbls) ==
  \A i \in DOMAIN tbls :
    \A j, l \in DOMAIN tbls[i].fields :
      tbls[i].fields[j].name = tbls[i].fields[l].name => j = l

\* What C28_NoDuplicateFieldNames says of one request d made twice in a
\* row: field names stay distinct within every table, and when the first
\* call made a relationship the second makes none and reports a duplicate.
RepeatedResolve(d) ==
  \A clock \in Clocks :
    \A later \in clock..MaxClock :
      LET first == Resolve(d, clock)
          second == handleRelationshipCreation(first.store, later, d)
      IN /\ DistinctFieldNames(first.store.tables)
         /\ DistinctFieldNames(second.store.tables)
         /\ first.newRelationship # << >> =>
              /\ second.newRelationship = << >>
              /\ \E k \in DOMAIN second.toasts :
                   second.toasts[k] = DuplicateRelationship

\* C28: resolve never gives a table two fields with the same name: making
\* the same request again, from the same source field to the same target
\* table, appends no second `<sourceFieldName>_ref` field and is turned
\* down as a duplicate.
C28_NoDuplicateFieldNames ==
  DistinctFieldNames(tables) => EveryDelivered(RepeatedResolve)

\* ------------------------------------------------------- the AI assistant
\* AIChat.handleSend in its two halves: up to `await modifySchemaWithAI(
\* { tables, relationships }, currentMessage)`, with the tables and
\* relationships of the render the handler was made in, and from the answer
\* on.  The chat is a panel in a corner of the designer, whose handlers run
\* while the request is under way.
\*
\* A schema as the JSON the service sends back: every flag it sends is
\* present.
AsResponse(schema) ==
  [tables |->
     [i \in DOMAIN schema.tables |->
        [id |-> schema.tables[i].id,
         name |-> schema.tables[i].name,
         enableRLS |-> <<schema.tables[i].enableRLS>>,
         policies |-> schema.tables[i].policies,
         fields |->
           [j \in DOMAIN schema.tables[i].fields |->
              [schema.tables[i].fields[j] EXCEPT
                 !.isPrimaryKey = <<@>>, !.isForeignKey = <<@>>,
                 !.isUnique = <<@>>, !.isNullable = <<@>>]]]],
   relationships |-> schema.relationships]

\* The table a request "add a comments table" adds.
CommentsTable ==
  [id |-> <<"comments">>, name |-> "comments", enableRLS |-> << >>,
   policies |-> << >>,
   fields |-> <<ResponseField("id", "uuid", <<TRUE>>, << >>, << >>, << >>, << >>)>>]

\* Answers of the service to a request made with the given schema: the
\* schema as it was sent, unchanged or with the table added the message
\* asked for.
ModifiedSchemas(schema) ==
  {AsResponse(schema)}
    \cup (IF Len(schema.tables) < MaxTables
          THEN {[AsResponse(schema) EXCEPT !.tables = Append(@, CommentsTable)]}
          ELSE {})

\* handleSend up to its await
HandleSend ==
  /\ Idle
  /\ currentSchema = << >>
  /\ currentSchema' = <<[tables |-> tables, relationships |-> relationships]>>
  /\ ops' = ops + 1
  /\ UNCHANGED <<tables, relationships, selectedTable, selectedRelationship,
                 now, drag, storageVars, oracleVars, exportVars>>

\* modifySchemaWithAI returns and handleSend goes on to loadDesign.
ModifySchemaReturns ==
  /\ currentSchema # << >>
  /\ \E response \in ModifiedSchemas(currentSchema[1]) :
       /\ StoreBecomes(handleSend(Store, response))
       /\ currentSchema' = << >>
       /\ UNCHANGED <<now, drag>>

\* modifySchemaWithAI throws: handleSend shows the error.
ModifySchemaThrows ==
  /\ currentSchema # << >>
  /\ currentSchema' = << >>
  /\ UNCHANGED <<tables, relationships, selectedTable, selectedRelationship,
                 now, drag, ops, storageVars, oracleVars, exportVars>>

ChatNext ==
  \/ HandleAddTable
  \/ OnNodeClick
  \/ HandleAddField
  \/ LoadDesign
  \/ HandleSend
  \/ ModifySchemaReturns
  \/ ModifySchemaThrows

ChatSpec == Init /\ [][ChatNext]_vars

\* -------------------------------------------------------------------- C29
\* The ids of a sequence of records.
IdsOf(s) == {s[i].id : i \in DOMAIN s}

\* The field ids of the table of the given id, none when there is no such
\* table.
FieldIdsOf(tbls, tableId) ==
  UNION {IdsOf(tbls[i].fields) : i \in {k \in DOMAIN tbls : tbls[k].id = tableId}}

\* Everything of the graph that the schema sent did not have is in the
\* merged graph: tables, fields of tables, relationships.
KeepsInterimChanges(sent, merged) ==
  /\ IdsOf(tables) \ IdsOf(sent.tables) \subseteq IdsOf(merged.tables)
  /\ \A i \in DOMAIN tables :
       FieldIdsOf(tables, tables[i].id) \ FieldIdsOf(sent.tables, tables[i].id)
         \subseteq FieldIdsOf(merged.tables, tables[i].id)
  /\ IdsOf(relationships) \ IdsOf(sent.relationships)
       \subseteq IdsOf(merged.relationships)

\* C29: a mutation of the graph made between the sending of a schema
\* modification request and the merge of its answer is still in the graph
\* after the merge: whatever the service answers to the schema it was sent,
\* the merge drops no table, field or relationship added in the meantime.
C29_MergeKeepsInterimChanges ==
  currentSchema # << >> =>
    \A response \in ModifiedSchemas(currentSchema[1]) :
      KeepsInterimChanges(currentSchema[1], handleSend(Store, response))

\* -------------------------------------------------------------------- C30
\* The store's loadFromStorage: the tables and relationships of the stored
\* snapshot, when there is one, replace those of the graph; nothing else is
\* set and nothing is written.
loadFromStorage(s) ==
  IF s.databaseSchema = << >> THEN s
  ELSE [s EXCEPT !.tables = s.databaseSchema[1].tables,
                 !.relationships = s.databaseSchema[1].relationships]

\* The selectedRelationship of store value s is null or the id of one of
\* its relationships.
SelectedRelationshipExists(s) ==
  s.selectedRelationship # Null =>
    \E k \in DOMAIN s.relationships :
      s.relationships[k].id = s.selectedRelationship

\* C30: selectedRelationship is null or the id of a relationship of the
\* graph, in every reachable state and after each of the store's removals
\* made from it: deleteRelationship, the cascades of deleteTable and of
\* deleteField, and loadFromStorage.
C30_SelectedRelationshipExists ==
  /\ SelectedRelationshipExists(Store)
  /\ \A k \in DOMAIN relationships :
       SelectedRelationshipExists(deleteRelationship(Store, relationships[k].id))
  /\ SelectedRelationshipExists(loadFromStorage(Store))
  /\ \A i \in DOMAIN tables :
       /\ SelectedRelationshipExists(deleteTable(Store, tables[i].id))
       /\ \A j \in DOMAIN tables[i].fields :
            SelectedRelationshipExists(
              deleteField(Store, tables[i].id, tables[i].fields[j].id))
====
